---------------------------- MODULE Spec2Model ----------------------------
(***************************************************************************)
(* A model of the cleanmail decision core: the safety guard, the           *)
(* heuristic rule set and the policy engine (policies.py), the classifier  *)
(* confidence floor (classifier.py), the run orchestrator with decision    *)
(* execution (engine.py) and the audit store (storage.py).                 *)
(*                                                                         *)
(* SpecPolicy calls policy_decide once on each message and safety section, *)
(* SpecHeuristics fast_heuristics once on each message, SpecClassifier     *)
(* decide_from_classification once on each classification and floor,       *)
(* SpecExecute execute_decision once on each decision.  Spec runs          *)
(* process_inbox twice against one gateway, SpecTally does so over a       *)
(* longer listing, and SpecStore runs the store operations in any order.   *)
(*                                                                         *)
(* Text is modelled as a sequence of one-character strings so that         *)
(* strip(), lower(), upper(), split("@", 1), endswith() and the substring  *)
(* test `in` are computed character by character.  Python's None is the    *)
(* value None below.  A formatted string (an f-string) is the sequence of  *)
(* its fragments.                                                          *)
(***************************************************************************)
EXTENDS Integers, Sequences, FiniteSets, TLC

VARIABLES
    call,       \* the pending call of a pure function: [fn, ...arguments]
    ret,        \* what that call returned, and whether it has returned
    config,     \* the configuration dictionary handed to process_inbox
    gateway,    \* the GmailGateway handed to process_inbox (its fixed answers)
    pc,         \* position of process_inbox: idle, entered, loop, done
    started,    \* process_inbox local `started`
    ids,        \* process_inbox local `ids`
    idx,        \* number of ids of `ids` the for loop has consumed
    dry_run,    \* process_inbox local `dry_run`
    decisions,  \* process_inbox local `decisions`
    counts,     \* process_inbox local `counts` (Counter: key present iff > 0)
    examples,   \* process_inbox local `examples` (key present iff non-empty)
    errors,     \* process_inbox local `errors`
    calls,      \* every gateway call of the current run, in call order
    report,     \* the RunReport the current run returned (NoReport before)
    prev,       \* the RunReport of the previous run, without its two
                \* timestamps (NoReport before)
    meta,       \* the rows of the audit store's table `meta`, in rowid order
    audit       \* the rows of the audit store's table `audit`, in rowid order

vars == <<call, ret, config, gateway, pc, started, ids, idx, dry_run,
          decisions, counts, examples, errors, calls, report, prev,
          meta, audit>>

storeVars == <<meta, audit>>

engineVars == <<config, gateway, pc, started, ids, idx, dry_run,
                decisions, counts, examples, errors, calls, report, prev>>

---------------------------------------------------------------------------
(* Text: str methods used by policies.py *)

None == <<"<None>">>

EmptyStr == <<>>

UpperChars == <<"A","B","C","D","E","F","G","H","I","J","K","L","M",
                "N","O","P","Q","R","S","T","U","V","W","X","Y","Z">>

LowerChars == <<"a","b","c","d","e","f","g","h","i","j","k","l","m",
                "n","o","p","q","r","s","t","u","v","w","x","y","z">>

Whitespace == {" ", "\t", "\n", "\r"}

\* x or y
OrElse(x, y) == IF x = None \/ x = EmptyStr THEN y ELSE x

LowerChar(c) ==
    IF \E i \in 1..Len(UpperChars) : UpperChars[i] = c
    THEN LowerChars[CHOOSE i \in 1..Len(UpperChars) : UpperChars[i] = c]
    ELSE c

UpperChar(c) ==
    IF \E i \in 1..Len(LowerChars) : LowerChars[i] = c
    THEN UpperChars[CHOOSE i \in 1..Len(LowerChars) : LowerChars[i] = c]
    ELSE c

\* s.lower()
lower(s) == [i \in 1..Len(s) |-> LowerChar(s[i])]

\* s.upper()
upper(s) == [i \in 1..Len(s) |-> UpperChar(s[i])]

\* s.strip()
strip(s) ==
    LET keep == {i \in 1..Len(s) : s[i] \notin Whitespace}
    IN  IF keep = {} THEN EmptyStr
        ELSE LET lo == CHOOSE i \in keep : \A j \in keep : i <= j
                 hi == CHOOSE i \in keep : \A j \in keep : j <= i
             IN  SubSeq(s, lo, hi)

\* sub in s
Contains(sub, s) ==
    \E i \in 0..(Len(s) - Len(sub)) : SubSeq(s, i + 1, i + Len(sub)) = sub

\* s.endswith(suffix)
endswith(s, suffix) ==
    /\ Len(suffix) <= Len(s)
    /\ SubSeq(s, Len(s) - Len(suffix) + 1, Len(s)) = suffix

\* s.split("@", 1)[1], for s with "@" in s
AfterFirstAt(s) ==
    LET at == CHOOSE i \in 1..Len(s) : s[i] = "@" /\ \A j \in 1..(i - 1) : s[j] # "@"
    IN  SubSeq(s, at + 1, Len(s))

\* the members of a list
Elems(list) == {list[i] : i \in 1..Len(list)}

---------------------------------------------------------------------------
(* models.py *)

KEEP == "keep"

ARCHIVE == "archive"

TRASH == "trash"

LABEL == "label"

Action == {KEEP, ARCHIVE, TRASH, LABEL}

\* no Action: the None of fast_heuristics' first component
NoAction == "none"

Decision(msg, action, labels_to_add, reason, by) ==
    [message |-> msg, action |-> action, labels_to_add |-> labels_to_add,
     reason |-> reason, by |-> by]

\* policy_decide's None, in the shape of a Decision so the two compare
NoDecision ==
    [message |-> None, action |-> NoAction, labels_to_add |-> <<>>,
     reason |-> <<>>, by |-> "none"]

\* dict.get(key, default) on a section of the configuration: `present` holds
\* the keys the dictionary has
Get(cfg, key, default) == IF key \in cfg.present THEN cfg[key] ELSE default

---------------------------------------------------------------------------
(* policies.py *)

\* is_whitelisted comparing the sender with the entries as they are written
is_whitelisted_raw_entries(msg, whitelist_senders, whitelist_domains) ==
    LET sender == lower(strip(OrElse(msg.from_addr, EmptyStr)))
    IN  \/ sender \in Elems(whitelist_senders)
        \/ /\ "@" \in Elems(sender)
           /\ LET domain == AfterFirstAt(sender)
              IN  \E k \in 1..Len(whitelist_domains) :
                     LET d == OrElse(whitelist_domains[k], EmptyStr)
                     IN  /\ d # EmptyStr
                         /\ \/ domain = d
                            \/ endswith(domain, <<".">> \o d)

is_whitelisted(msg, whitelist_senders, whitelist_domains) ==
    LET sender == lower(strip(OrElse(msg.from_addr, EmptyStr)))
    IN  \/ sender \in {lower(strip(s)) : s \in Elems(whitelist_senders)}
        \/ /\ "@" \in Elems(sender)
           /\ LET domain == AfterFirstAt(sender)
              IN  \E k \in 1..Len(whitelist_domains) :
                     LET d == lower(strip(OrElse(whitelist_domains[k], EmptyStr)))
                     IN  /\ d # EmptyStr
                         /\ \/ domain = d
                            \/ endswith(domain, <<".">> \o d)

\* is_protected comparing the labels case-sensitively
is_protected_case_sensitive(msg, never_touch_labels) ==
    Elems(never_touch_labels) \cap Elems(msg.labels) # {}

is_protected(msg, never_touch_labels) ==
    LET protected    == {upper(l) : l \in Elems(never_touch_labels)}
        labels_upper == {upper(l) : l \in Elems(msg.labels)}
    IN  protected \cap labels_upper # {}

spammy ==
    << <<"w","i","n"," ","m","o","n","e","y">>,
       <<"f","r","e","e","!","!","!">>,
       <<"u","r","g","e","n","t"," ","a","c","t","i","o","n"," ",
         "r","e","q","u","i","r","e","d">>,
       <<"l","o","a","n"," ","a","p","p","r","o","v","e","d">> >>

ListUnsubscribe ==
    <<"l","i","s","t","-","u","n","s","u","b","s","c","r","i","b","e">>

Unsubscribe == <<"u","n","s","u","b","s","c","r","i","b","e">>

\* fast_heuristics with the two tests in the other order: spam keywords first
fast_heuristics_spam_first(msg) ==
    LET subj == lower(OrElse(msg.subject, EmptyStr))
        body_hint_source ==
            lower(OrElse(OrElse(msg.body_preview, msg.snippet), EmptyStr))
    IN  IF \E k \in 1..Len(spammy) : Contains(spammy[k], subj)
        THEN <<TRASH, <<"spammy subject">> >>
        ELSE IF Contains(ListUnsubscribe, body_hint_source)
                \/ Contains(Unsubscribe, body_hint_source)
        THEN <<ARCHIVE, <<"unsubscribe hint">> >>
        ELSE <<NoAction, <<>> >>

\* the pair (action, reason); (None, None) is <<NoAction, <<>>>>
fast_heuristics(msg) ==
    LET subj == lower(OrElse(msg.subject, EmptyStr))
        body_hint_source ==
            lower(OrElse(OrElse(msg.body_preview, msg.snippet), EmptyStr))
    IN  IF Contains(ListUnsubscribe, body_hint_source)
           \/ Contains(Unsubscribe, body_hint_source)
        THEN <<ARCHIVE, <<"unsubscribe hint">> >>
        ELSE IF \E k \in 1..Len(spammy) : Contains(spammy[k], subj)
        THEN <<TRASH, <<"spammy subject">> >>
        ELSE <<NoAction, <<>> >>

\* policy_decide asking the heuristics before the guard
policy_decide_heuristics_first(msg, cfg) ==
    LET saf == cfg.safety
        wl  == Get(saf, "whitelist_senders", <<>>)
        wld == Get(saf, "whitelist_domains", <<>>)
        ntl == Get(saf, "never_touch_labels", <<>>)
        h   == fast_heuristics(msg)
    IN  IF h[1] # NoAction
        THEN IF h[1] = TRASH
             THEN Decision(msg, ARCHIVE, <<>>, h[2] \o <<" (conservative)">>, "policy")
             ELSE Decision(msg, h[1], <<>>, OrElse(h[2], <<"heuristic">>), "policy")
        ELSE IF is_whitelisted(msg, wl, wld)
        THEN Decision(msg, KEEP, <<>>, <<"whitelisted">>, "policy")
        ELSE IF is_protected(msg, ntl)
        THEN Decision(msg, KEEP, <<>>, <<"protected label">>, "policy")
        ELSE NoDecision

\* policy_decide without the downgrade of a heuristic Trash
policy_decide_no_downgrade(msg, cfg) ==
    LET saf == cfg.safety
        wl  == Get(saf, "whitelist_senders", <<>>)
        wld == Get(saf, "whitelist_domains", <<>>)
        ntl == Get(saf, "never_touch_labels", <<>>)
        h   == fast_heuristics(msg)
    IN  IF is_whitelisted(msg, wl, wld)
        THEN Decision(msg, KEEP, <<>>, <<"whitelisted">>, "policy")
        ELSE IF is_protected(msg, ntl)
        THEN Decision(msg, KEEP, <<>>, <<"protected label">>, "policy")
        ELSE IF h[1] # NoAction
        THEN Decision(msg, h[1], <<>>, OrElse(h[2], <<"heuristic">>), "policy")
        ELSE NoDecision

policy_decide(msg, cfg) ==
    LET saf == cfg.safety
        wl  == Get(saf, "whitelist_senders", <<>>)
        wld == Get(saf, "whitelist_domains", <<>>)
        ntl == Get(saf, "never_touch_labels", <<>>)
        h   == fast_heuristics(msg)
    IN  IF is_whitelisted(msg, wl, wld)
        THEN Decision(msg, KEEP, <<>>, <<"whitelisted">>, "policy")
        ELSE IF is_protected(msg, ntl)
        THEN Decision(msg, KEEP, <<>>, <<"protected label">>, "policy")
        ELSE IF h[1] # NoAction
        THEN IF h[1] = TRASH
             THEN Decision(msg, ARCHIVE, <<>>, h[2] \o <<" (conservative)">>, "policy")
             ELSE Decision(msg, h[1], <<>>, OrElse(h[2], <<"heuristic">>), "policy")
        ELSE NoDecision


---------------------------------------------------------------------------
(* Inputs of the pure functions of policies.py: messages and safety        *)
(* sections built from every combination of the values below.              *)

\* MessageSummary.from_addr: absent, padded and mixed-case, a sub-domain, a
\* look-alike domain, an empty domain, a trailing dot, no "@", a plain address
Senders ==
    { None,
      <<" ","B","o","s","s","@","C","o",".","C","O","M"," ">>,
      <<"n","e","w","s","@","m",".","c","o",".","c","o","m">>,
      <<"s","p","a","m","@","x","c","o",".","c","o","m">>,
      <<"x","@">>,
      <<"x","@","y",".">>,
      <<"n","o","b","o","d","y">>,
      <<"a","@","b","a","d",".","o","r","g">> }

\* MessageSummary.subject
Subjects ==
    { None,
      <<"W","I","N"," ","M","O","N","E","Y"," ","n","o","w">>,
      <<"H","i">> }

\* MessageSummary.labels
LabelLists ==
    { <<>>,
      << <<"I","N","B","O","X">> >>,
      << <<"I","N","B","O","X">>, <<"S","t","a","r","r","e","d">> >> }

\* MessageSummary.body_preview
BodyPreviews ==
    { None,
      EmptyStr,
      <<"U","n","s","u","b","s","c","r","i","b","e"," ","h","e","r","e">>,
      <<"h","e","l","l","o">> }

\* MessageSummary.snippet
Snippets ==
    { <<".",".",".">>,
      <<"s","e","e"," ","u","n","s","u","b","s","c","r","i","b","e">> }

MessageSummary(id, from_addr, subject, snippet, labels, body_preview) ==
    [id |-> id, from_addr |-> from_addr, subject |-> subject,
     snippet |-> snippet, labels |-> labels, body_preview |-> body_preview]

PolicyMessages ==
    { MessageSummary("m1", f, s, sn, l, b) :
        f \in Senders, s \in Subjects, sn \in Snippets,
        l \in LabelLists, b \in BodyPreviews }

\* safety.whitelist_senders
WhitelistSenders ==
    { <<>>,
      << <<" ","B","O","S","S","@","c","o",".","c","o","m">> >> }

\* safety.whitelist_domains: none, a padded mixed-case domain, an empty
\* entry, an empty entry before a domain
WhitelistDomains ==
    { <<>>,
      << <<"C","o",".","c","o","m"," ">> >>,
      << EmptyStr >>,
      << EmptyStr, <<"b","a","d",".","o","r","g">> >> }

\* safety.never_touch_labels
NeverTouchLabels ==
    { <<>>,
      << <<"s","t","a","r","r","e","d">>,
         <<"I","M","P","O","R","T","A","N","T">> >> }

\* the "safety" section; any of its three keys may be missing, and a
\* configuration without the section reads as the section without keys
SafetySections ==
    { [present |-> p, whitelist_senders |-> wl, whitelist_domains |-> wld,
       never_touch_labels |-> ntl] :
        p \in { {"whitelist_senders", "whitelist_domains", "never_touch_labels"},
                {"whitelist_domains", "never_touch_labels"},
                {"whitelist_senders"},
                {} },
        wl \in WhitelistSenders, wld \in WhitelistDomains,
        ntl \in NeverTouchLabels }

\* a configuration of which only the "safety" section is read
PolicyConfigs == { [safety |-> s] : s \in SafetySections }


---------------------------------------------------------------------------
(* The pure functions, called on every input: one call per behaviour.      *)

NoReport == [returned |-> FALSE]

\* the database file does not exist yet: no table has a row
StoreEmpty ==
    /\ meta = <<>>
    /\ audit = <<>>

\* process_inbox is not running
EngineIdle ==
    /\ config = [safety |-> [present |-> {}]]
    /\ gateway = [present |-> FALSE]
    /\ pc = "idle"
    /\ started = 0
    /\ ids = <<>>
    /\ idx = 0
    /\ dry_run = TRUE
    /\ decisions = <<>>
    /\ counts = [a \in Action |-> 0]
    /\ examples = [a \in Action |-> <<>>]
    /\ errors = <<>>
    /\ calls = <<>>
    /\ report = NoReport
    /\ prev = NoReport

InitPolicy ==
    /\ call \in [fn : {"policy_decide"}, msg : PolicyMessages, cfg : PolicyConfigs]
    /\ ret = [done |-> FALSE, value |-> NoDecision]
    /\ EngineIdle
    /\ StoreEmpty

CallPolicyDecide ==
    /\ call.fn = "policy_decide"
    /\ ~ret.done
    /\ ret' = [done |-> TRUE, value |-> policy_decide(call.msg, call.cfg)]
    /\ UNCHANGED <<call, engineVars, storeVars>>

NextPolicy == CallPolicyDecide

SpecPolicy == InitPolicy /\ [][NextPolicy]_vars


---------------------------------------------------------------------------
(* Claims about policy_decide, stated on the call and its result.          *)

\* the sender as the claims read it: trimmed and lower-cased, "" when absent
ClaimSender ==
    lower(strip(IF call.msg.from_addr = None THEN EmptyStr ELSE call.msg.from_addr))

\* the entries of a list of the safety section (none when the key is missing)
ClaimEntries(key) ==
    IF key \in call.cfg.safety.present THEN Elems(call.cfg.safety[key]) ELSE {}

\* the sender equals an entry of whitelist_senders, both trimmed and lower-cased
SenderListed ==
    \E e \in ClaimEntries("whitelist_senders") : lower(strip(e)) = ClaimSender

\* the domain part after "@" equals, or is a sub-domain of, the entry e
DomainMatches(e) ==
    /\ \E i \in 1..Len(ClaimSender) : ClaimSender[i] = "@"
    /\ LET dom == AfterFirstAt(ClaimSender)
           ent == lower(strip(e))
       IN  \/ dom = ent
           \/ /\ Len(dom) > Len(ent)
              /\ SubSeq(dom, Len(dom) - Len(ent), Len(dom)) = <<".">> \o ent

\* the domain matches an entry of whitelist_domains
DomainListed == \E e \in ClaimEntries("whitelist_domains") : DomainMatches(e)

\* the domain matches an entry of whitelist_domains that is not empty once trimmed
DomainListedNonEmpty ==
    \E e \in ClaimEntries("whitelist_domains") :
        strip(e) # EmptyStr /\ DomainMatches(e)

\* a label of the message equals an entry of never_touch_labels, ignoring case
LabelListed ==
    \E l \in Elems(call.msg.labels) : \E e \in ClaimEntries("never_touch_labels") :
        lower(l) = lower(e)

ReturnedKeep(reason) ==
    /\ ret.value.action = KEEP
    /\ ret.value.reason = reason

\* C1 as stated: a message whose trimmed, lower-cased sender is an entry of
\* whitelist_senders, or whose domain equals or is a sub-domain of an entry of
\* whitelist_domains (entries read trimmed and lower-cased, as the code reads
\* them), is decided Keep with reason "whitelisted", whatever its labels,
\* subject, snippet and body preview.
C1_AsStated ==
    (ret.done /\ (SenderListed \/ DomainListed)) => ReturnedKeep(<<"whitelisted">>)

\* C1 amended: the same, for the entries of whitelist_domains that are not
\* empty once trimmed (an empty entry whitelists nothing).
C1_Whitelisted ==
    (ret.done /\ (SenderListed \/ DomainListedNonEmpty))
        => ReturnedKeep(<<"whitelisted">>)

\* a message whitelisted by a sub-domain only, with a spam keyword in its
\* subject and a protected label, has been decided
C1_Witness ==
    /\ ret.done
    /\ ~SenderListed
    /\ DomainListedNonEmpty
    /\ \E e \in ClaimEntries("whitelist_domains") :
          DomainMatches(e) /\ AfterFirstAt(ClaimSender) # lower(strip(e))
    /\ fast_heuristics(call.msg)[1] = TRASH
    /\ LabelListed
    /\ ReturnedKeep(<<"whitelisted">>)

\* C2 as stated: a message with a label that is, ignoring case, an entry of
\* never_touch_labels is decided Keep with reason "protected label", whatever
\* its subject and its sender.
C2_AsStated ==
    (ret.done /\ LabelListed) => ReturnedKeep(<<"protected label">>)

\* C2 amended: such a message is decided Keep whatever its subject and sender;
\* the reason is "protected label" unless the sender is whitelisted, and then
\* it is "whitelisted".
C2_Protected ==
    (ret.done /\ LabelListed) =>
        ReturnedKeep(IF SenderListed \/ DomainListedNonEmpty
                     THEN <<"whitelisted">> ELSE <<"protected label">>)

\* a message with a protected label in another case, not whitelisted, with a
\* spam keyword in its subject, has been decided
C2_Witness ==
    /\ ret.done
    /\ LabelListed
    /\ Elems(call.msg.labels) \cap ClaimEntries("never_touch_labels") = {}
    /\ ~(SenderListed \/ DomainListedNonEmpty)
    /\ fast_heuristics(call.msg)[1] = TRASH
    /\ ReturnedKeep(<<"protected label">>)

\* the reason ends with " (conservative)"
EndsConservative(reason) ==
    Len(reason) > 0 /\ reason[Len(reason)] = " (conservative)"

\* C3 as stated: policy_decide never returns Trash; for every message and
\* configuration whose heuristic verdict is Trash the Decision is Archive with
\* a reason ending in " (conservative)"; every Decision is Keep or Archive.
C3_AsStated ==
    ret.done =>
        /\ ret.value.action # TRASH
        /\ fast_heuristics(call.msg)[1] = TRASH =>
              /\ ret.value.action = ARCHIVE
              /\ EndsConservative(ret.value.reason)
        /\ ret.value # NoDecision => ret.value.action \in {KEEP, ARCHIVE}

\* C3 amended: the same, where the Archive with a reason ending in
\* " (conservative)" is returned for the messages whose heuristic verdict is
\* Trash and that are neither whitelisted nor carry a protected label (those
\* are kept).
C3_Conservative ==
    ret.done =>
        /\ ret.value.action # TRASH
        /\ (/\ fast_heuristics(call.msg)[1] = TRASH
            /\ ~(SenderListed \/ DomainListedNonEmpty)
            /\ ~LabelListed) =>
              /\ ret.value.action = ARCHIVE
              /\ EndsConservative(ret.value.reason)
        /\ ret.value # NoDecision => ret.value.action \in {KEEP, ARCHIVE}

\* a message with a spam keyword in its subject and no unsubscribe hint, not
\* whitelisted and not protected, has been decided Archive
C3_Witness ==
    /\ ret.done
    /\ fast_heuristics(call.msg)[1] = TRASH
    /\ ~(SenderListed \/ DomainListedNonEmpty)
    /\ ~LabelListed
    /\ ret.value.action = ARCHIVE
    /\ ret.value.reason = <<"spammy subject", " (conservative)">>


---------------------------------------------------------------------------
(* classifier.py.  A confidence is a number of hundredths: 0.85 is 85.     *)

DefaultMinTrashConfidence == 85

Classification(category, confidence, suggested_action, rationale) ==
    [category |-> category, confidence |-> confidence,
     suggested_action |-> suggested_action, rationale |-> rationale]

\* decide_from_classification capping a Trash at the floor as well
decide_from_classification_le(msg, cls, cfg) ==
    LET min_trash == Get(cfg.llm, "min_trash_confidence", DefaultMinTrashConfidence)
        action    == cls.suggested_action
    IN  IF action = TRASH /\ cls.confidence <= min_trash
        THEN <<ARCHIVE, <<"low confidence; archived instead">> >>
        ELSE <<action, OrElse(cls.rationale, cls.category)>>

\* the pair (action, reason)
decide_from_classification(msg, cls, cfg) ==
    LET min_trash == Get(cfg.llm, "min_trash_confidence", DefaultMinTrashConfidence)
        action    == cls.suggested_action
    IN  IF action = TRASH /\ cls.confidence < min_trash
        THEN <<ARCHIVE, <<"low confidence; archived instead">> >>
        ELSE <<action, OrElse(cls.rationale, cls.category)>>

\* Classification.category
Categories == { <<"spam">>, <<"newsletter">> }

\* Classification.confidence, 0.0 to 1.0
Confidences == {0, 1, 49, 50, 51, 84, 85, 86, 99, 100}

\* Classification.rationale: absent, empty, given
Rationales == { None, EmptyStr, <<"bulk sender, no personal content">> }

Classifications ==
    { Classification(c, p, a, r) :
        c \in Categories, p \in Confidences, a \in Action, r \in Rationales }

\* the "llm" section, with and without the key min_trash_confidence
ClassifierConfigs ==
    { [llm |-> [present |-> {}, min_trash_confidence |-> DefaultMinTrashConfidence]] }
    \cup { [llm |-> [present |-> {"min_trash_confidence"}, min_trash_confidence |-> f]] :
             f \in {0, 50, 86, 100} }

InitClassifier ==
    /\ call \in [fn : {"decide_from_classification"},
                 msg : { MessageSummary("m1", None, None, EmptyStr, <<>>, None) },
                 cls : Classifications, cfg : ClassifierConfigs]
    /\ ret = [done |-> FALSE, value |-> <<NoAction, <<>> >>]
    /\ EngineIdle
    /\ StoreEmpty

CallDecideFromClassification ==
    /\ call.fn = "decide_from_classification"
    /\ ~ret.done
    /\ ret' = [done |-> TRUE,
               value |-> decide_from_classification(call.msg, call.cls, call.cfg)]
    /\ UNCHANGED <<call, engineVars, storeVars>>

NextClassifier == CallDecideFromClassification

SpecClassifier == InitClassifier /\ [][NextClassifier]_vars

\* the confidence floor as the claim reads it: min_trash_confidence, 0.85
\* when the key is absent
ClaimFloor ==
    IF "min_trash_confidence" \in call.cfg.llm.present
    THEN call.cfg.llm.min_trash_confidence
    ELSE 85

\* C4 as stated: a suggested Trash with confidence strictly below the floor
\* (0.85 when the key is absent) becomes (Archive, "low confidence; archived
\* instead"); at or above the floor Trash is returned; every other suggested
\* action is returned unchanged; the reason is the rationale, or the category
\* when the rationale is absent.
C4_AsStated ==
    ret.done =>
        IF call.cls.suggested_action = TRASH /\ call.cls.confidence < ClaimFloor
        THEN ret.value = <<ARCHIVE, <<"low confidence; archived instead">> >>
        ELSE /\ ret.value[1] = call.cls.suggested_action
             /\ ret.value[2] = IF call.cls.rationale = None
                               THEN call.cls.category
                               ELSE call.cls.rationale

\* C4 amended: the same, where the reason is the category when the rationale
\* is absent or the empty string.
C4_ConfidenceFloor ==
    ret.done =>
        IF call.cls.suggested_action = TRASH /\ call.cls.confidence < ClaimFloor
        THEN ret.value = <<ARCHIVE, <<"low confidence; archived instead">> >>
        ELSE /\ ret.value[1] = call.cls.suggested_action
             /\ ret.value[2] = IF call.cls.rationale \in {None, EmptyStr}
                               THEN call.cls.category
                               ELSE call.cls.rationale

\* a suggested Trash exactly at the default floor has been returned as Trash,
\* with the category as reason
C4_Witness ==
    /\ ret.done
    /\ call.cls.suggested_action = TRASH
    /\ call.cfg.llm.present = {}
    /\ call.cls.confidence = 85
    /\ call.cls.rationale = None
    /\ ret.value = <<TRASH, call.cls.category>>


---------------------------------------------------------------------------
(* engine.py: execute_decision and the pieces of process_inbox's loop      *)

\* the most subjects process_inbox keeps per action
MaxExamples == 5

DefaultMaxMessagesPerRun == 500

DefaultFetchWindowHours == 24

\* a gateway call as the call log records it; raised tells whether the
\* gateway answered it with an exception
GatewayCall(op, id, add) == [op |-> op, id |-> id, add |-> add, raised |-> FALSE]

Raised(c) == [c EXCEPT !.raised = TRUE]

\* the operations of the gateway that change the mailbox
Mutating == {"archive_message", "trash_message", "modify_labels"}

\* execute_decision applying the label additions after trash_message too
execute_decision_trash_then_label(decision, cfg, gateway_present, dry) ==
    IF dry \/ ~gateway_present THEN <<>>
    ELSE LET mid == decision.message.id
             label == IF decision.labels_to_add # <<>>
                      THEN <<GatewayCall("modify_labels", mid, decision.labels_to_add)>>
                      ELSE <<>>
         IN  CASE decision.action = KEEP    -> label
               [] decision.action = ARCHIVE ->
                      <<GatewayCall("archive_message", mid, <<>>)>> \o label
               [] decision.action = TRASH   ->
                      <<GatewayCall("trash_message", mid, <<>>)>> \o label
               [] decision.action = LABEL   -> label
               [] OTHER                     -> <<>>

\* execute_decision running its gateway calls in a dry run too
execute_decision_ignores_dry_run(decision, cfg, gateway_present, dry) ==
    IF ~gateway_present THEN <<>>
    ELSE LET mid == decision.message.id
             label == IF decision.labels_to_add # <<>>
                      THEN <<GatewayCall("modify_labels", mid, decision.labels_to_add)>>
                      ELSE <<>>
         IN  CASE decision.action = KEEP    -> label
               [] decision.action = ARCHIVE ->
                      <<GatewayCall("archive_message", mid, <<>>)>> \o label
               [] decision.action = TRASH   ->
                      <<GatewayCall("trash_message", mid, <<>>)>>
               [] decision.action = LABEL   -> label
               [] OTHER                     -> <<>>

\* the gateway calls execute_decision makes, in order, when none of them
\* raises; a call that raises ends it there
execute_decision(decision, cfg, gateway_present, dry) ==
    IF dry \/ ~gateway_present THEN <<>>
    ELSE LET mid == decision.message.id
             label == IF decision.labels_to_add # <<>>
                      THEN <<GatewayCall("modify_labels", mid, decision.labels_to_add)>>
                      ELSE <<>>
         IN  CASE decision.action = KEEP    -> label
               [] decision.action = ARCHIVE ->
                      <<GatewayCall("archive_message", mid, <<>>)>> \o label
               [] decision.action = TRASH   ->
                      <<GatewayCall("trash_message", mid, <<>>)>>
               [] decision.action = LABEL   -> label
               [] OTHER                     -> <<>>

\* lines 60-63 with an Archive fallback
Decide_archive_fallback(msg, cfg) ==
    LET decision == policy_decide(msg, cfg)
    IN  IF decision = NoDecision
        THEN Decision(msg, ARCHIVE, <<>>, <<"fallback">>, "policy")
        ELSE decision

\* lines 60-63: the policy's Decision, or the fallback when it defers
Decide(msg, cfg) ==
    LET decision == policy_decide(msg, cfg)
    IN  IF decision = NoDecision
        THEN Decision(msg, KEEP, <<>>, <<"fallback">>, "policy")
        ELSE decision

\* counts[decision.action.value] += 1
TallyCounts(cnt, decision) == [cnt EXCEPT ![decision.action] = @ + 1]

\* the examples test off by one: `<= 5` for `< 5`
TallyExamples_le(ex, decision) ==
    IF Len(ex[decision.action]) <= MaxExamples
    THEN [ex EXCEPT ![decision.action] = Append(@, decision.message.subject)]
    ELSE ex

\* the subject joins the action's examples while they are fewer than 5
TallyExamples(ex, decision) ==
    IF Len(ex[decision.action]) < MaxExamples
    THEN [ex EXCEPT ![decision.action] = Append(@, decision.message.subject)]
    ELSE ex

\* dict(counts): the keys the dictionary has
CountKeys(cnt) == {a \in DOMAIN cnt : cnt[a] > 0}

\* dict(examples): the keys the dictionary has
ExampleKeys(ex) == {a \in DOMAIN ex : ex[a] # <<>>}

RunReport(started_at, finished_at, cnt, ex, errs, decs) ==
    [returned |-> TRUE, started_at |-> started_at, finished_at |-> finished_at,
     counts |-> cnt, examples |-> ex, errors |-> errs, decisions |-> decs]

\* str(e) of the exceptions the gateway raises
ListErrorText == "quota exceeded"

FetchErrorText == "not found"

ActionErrorText == "backend error"

\* bool(config.get("mode", {}).get("dry_run", True))
DryRun(cfg) == Get(cfg.mode, "dry_run", TRUE)

\* lines 37-43: the arguments of list_messages
ListArguments(cfg) ==
    LET max_results == Get(cfg.limits, "max_messages_per_run", DefaultMaxMessagesPerRun)
        window_h    == Get(cfg.limits, "fetch_window_hours", DefaultFetchWindowHours)
        q == IF window_h > 0
             THEN <<"newer_than:", ToString(window_h), "h ", "-in:chats">>
             ELSE <<"-in:chats">>
    IN  [op |-> "list_messages", id |-> "", add |-> <<>>, raised |-> FALSE,
         max_results |-> max_results, query |-> q]

\* lines 45-53 walking the ids from the last one to the first
ListedIds_reversed(gw) ==
    IF gw.list_raises THEN <<>>
    ELSE [k \in 1..Len(gw.listing) |-> gw.listing[Len(gw.listing) + 1 - k]]

\* lines 45-49 with a listing that raises still handing over its ids
ListedIds_keeps_ids(gw) == gw.listing

\* lines 45-49: the ids of the run
ListedIds(gw) == IF gw.list_raises THEN <<>> ELSE gw.listing

\* the errors after list_messages
ListErrors(errs, gw) ==
    IF gw.list_raises
    THEN Append(errs, <<"list_messages failed: ", ListErrorText>>)
    ELSE errs

\* lines 66-69 forgetting the failure
ExecuteErrors_swallowed(errs, mid, raised) == errs

\* lines 66-69: the errors after execute_decision
ExecuteErrors(errs, mid, raised) ==
    IF raised
    THEN Append(errs, <<"action failed for ", mid, ": ", ActionErrorText>>)
    ELSE errs


---------------------------------------------------------------------------
(* process_inbox against a gateway whose list_messages and get_message     *)
(* answer the same way every time; a mutating call may raise at any time.  *)

\* the most ids a listing holds
MaxIds == 2

\* the instants the `now` argument and the clock may show: an earlier and
\* a later one
Times == {0, 1}

Ids == {ToString(i) : i \in 1..MaxIds}

\* listings: every sequence of distinct ids
Listings ==
    UNION { {l \in [1..n -> Ids] : \A i, j \in 1..n : i # j => l[i] # l[j]} :
              n \in 0..MaxIds }

\* the safety section of the runs
EngineSafety ==
    [present |-> {"whitelist_senders", "whitelist_domains", "never_touch_labels"},
     whitelist_senders |->
        << <<" ","B","O","S","S","@","c","o",".","c","o","m">> >>,
     whitelist_domains |-> << <<"C","o",".","c","o","m"," ">> >>,
     never_touch_labels |->
        << <<"s","t","a","r","r","e","d">>,
           <<"I","M","P","O","R","T","A","N","T">> >>]

\* what get_message may return (the id is the one asked for): a whitelisted
\* newsletter with a spam subject, a starred spam, a newsletter, a spam, a
\* plain message
EngineMessages ==
    { MessageSummary("", <<"n","e","w","s","@","m",".","c","o",".","c","o","m">>,
                     <<"W","I","N"," ","M","O","N","E","Y"," ","n","o","w">>,
                     <<".",".",".">>, << <<"I","N","B","O","X">> >>,
                     <<"U","n","s","u","b","s","c","r","i","b","e"," ","h","e","r","e">>),
      MessageSummary("", <<"a","@","b","a","d",".","o","r","g">>,
                     <<"L","o","a","n"," ","A","p","p","r","o","v","e","d">>,
                     <<".",".",".">>,
                     << <<"I","N","B","O","X">>, <<"S","t","a","r","r","e","d">> >>,
                     <<"h","e","l","l","o">>),
      MessageSummary("", <<"a","@","b","a","d",".","o","r","g">>,
                     <<"W","e","e","k","l","y">>,
                     <<"s","e","e"," ","u","n","s","u","b","s","c","r","i","b","e">>,
                     << <<"I","N","B","O","X">> >>, None),
      MessageSummary("", <<"s","p","a","m","@","x","c","o",".","c","o","m">>,
                     <<"W","I","N"," ","M","O","N","E","Y"," ","n","o","w">>,
                     <<".",".",".">>, << <<"I","N","B","O","X">> >>,
                     <<"h","e","l","l","o">>),
      MessageSummary("", <<"s","p","a","m","@","x","c","o",".","c","o","m">>,
                     <<"H","i">>, <<".",".",".">>, <<>>, <<"h","e","l","l","o">>) }

\* what get_message does for one id: raise, or return a message
MailboxEntries ==
    { [raises |-> TRUE, msg |-> MessageSummary("", None, None, EmptyStr, <<>>, None)] }
    \cup { [raises |-> FALSE, msg |-> m] : m \in EngineMessages }

\* the gateways: none, and one per listing, per answer of get_message to
\* each listed id, and per outcome of list_messages (when it raises, listing
\* is what it had yielded before)
Gateways ==
    { [present |-> FALSE, list_raises |-> FALSE, listing |-> <<>>, mailbox |-> <<>>] }
    \cup UNION { { [present |-> TRUE, list_raises |-> r, listing |-> l, mailbox |-> mb] :
                     mb \in [Elems(l) -> MailboxEntries], r \in BOOLEAN } :
                 l \in Listings }

\* the "mode" section: dry_run true, false, or missing
ModeSections ==
    { [present |-> {}, dry_run |-> TRUE],
      [present |-> {"dry_run"}, dry_run |-> TRUE],
      [present |-> {"dry_run"}, dry_run |-> FALSE] }

EngineConfigs ==
    { [safety |-> EngineSafety, mode |-> m, limits |-> [present |-> {}]] :
        m \in ModeSections }

\* a report without started_at and finished_at
WithoutTimes(r) ==
    IF r.returned
    THEN [returned |-> TRUE, counts |-> r.counts, examples |-> r.examples,
          errors |-> r.errors, decisions |-> r.decisions]
    ELSE NoReport

InitEngine(configs, gateways) ==
    /\ call = [fn |-> "process_inbox"]
    /\ ret = [done |-> FALSE]
    /\ config \in configs
    /\ gateway \in gateways
    /\ pc = "idle"
    /\ started = 0
    /\ ids = <<>>
    /\ idx = 0
    /\ dry_run = TRUE
    /\ decisions = <<>>
    /\ counts = [a \in Action |-> 0]
    /\ examples = [a \in Action |-> <<>>]
    /\ errors = <<>>
    /\ calls = <<>>
    /\ report = NoReport
    /\ prev = NoReport
    /\ StoreEmpty

Init == InitEngine(EngineConfigs, Gateways)

\* the call with its tallies kept from one call to the next
Start_keeps_tallies ==
    /\ pc \in {"idle", "done"}
    /\ prev = NoReport
    /\ prev' = WithoutTimes(report)
    /\ report' = NoReport
    /\ \E now \in Times : started' = now
    /\ decisions' = <<>>
    /\ errors' = <<>>
    /\ calls' = <<>>
    /\ ids' = <<>>
    /\ idx' = 0
    /\ dry_run' = TRUE
    /\ pc' = "entered"
    /\ UNCHANGED <<storeVars, call, ret, config, gateway, counts, examples>>

\* the call: lines 18-22.  A second call follows the first one's return.
Start ==
    /\ pc \in {"idle", "done"}
    /\ prev = NoReport
    /\ prev' = WithoutTimes(report)
    /\ report' = NoReport
    /\ \E now \in Times : started' = now
    /\ decisions' = <<>>
    /\ counts' = [a \in Action |-> 0]
    /\ examples' = [a \in Action |-> <<>>]
    /\ errors' = <<>>
    /\ calls' = <<>>
    /\ ids' = <<>>
    /\ idx' = 0
    /\ dry_run' = TRUE
    /\ pc' = "entered"
    /\ UNCHANGED <<storeVars, call, ret, config, gateway>>

\* lines 25-34: no gateway, an empty report
ReturnNoGateway ==
    /\ pc = "entered"
    /\ ~gateway.present
    /\ \E finished \in Times :
          report' = RunReport(started, finished, counts, examples, errors, decisions)
    /\ pc' = "done"
    /\ UNCHANGED <<storeVars, call, ret, config, gateway, started, ids, idx, dry_run,
                   decisions, counts, examples, errors, calls, prev>>

\* lines 36-52: list the ids, read dry_run
ListMessages ==
    /\ pc = "entered"
    /\ gateway.present
    /\ calls' = Append(calls, IF gateway.list_raises
                              THEN Raised(ListArguments(config))
                              ELSE ListArguments(config))
    /\ ids' = ListedIds(gateway)
    /\ errors' = ListErrors(errors, gateway)
    /\ dry_run' = DryRun(config)
    /\ idx' = 0
    /\ pc' = "loop"
    /\ UNCHANGED <<storeVars, call, ret, config, gateway, started, decisions, counts,
                   examples, report, prev>>

\* get_message raises and the loop ends (break for continue)
FetchFails_break ==
    /\ pc = "loop"
    /\ idx < Len(ids)
    /\ LET mid == ids[idx + 1]
       IN  /\ gateway.mailbox[mid].raises
           /\ calls' = Append(calls, Raised(GatewayCall("get_message", mid, <<>>)))
           /\ errors' = Append(errors, <<"get_message ", mid, " failed: ", FetchErrorText>>)
    /\ idx' = Len(ids)
    /\ UNCHANGED <<storeVars, call, ret, config, gateway, pc, started, ids, dry_run,
                   decisions, counts, examples, report, prev>>

\* lines 53-58: get_message raises; on to the next id
FetchFails ==
    /\ pc = "loop"
    /\ idx < Len(ids)
    /\ LET mid == ids[idx + 1]
       IN  /\ gateway.mailbox[mid].raises
           /\ calls' = Append(calls, Raised(GatewayCall("get_message", mid, <<>>)))
           /\ errors' = Append(errors, <<"get_message ", mid, " failed: ", FetchErrorText>>)
    /\ idx' = idx + 1
    /\ UNCHANGED <<storeVars, call, ret, config, gateway, pc, started, ids, dry_run,
                   decisions, counts, examples, report, prev>>

\* the loop body with the tally inside the try: skipped when a call raises
Process_tally_in_try ==
    /\ pc = "loop"
    /\ idx < Len(ids)
    /\ ~gateway.mailbox[ids[idx + 1]].raises
    /\ LET mid == ids[idx + 1]
           msg == [gateway.mailbox[mid].msg EXCEPT !.id = mid]
       IN  \E decision \in {Decide(msg, config)} :
           \E plan \in {execute_decision(decision, config, gateway.present, dry_run)} :
           \E raisedAt \in 0..Len(plan) :
              /\ calls' = calls \o <<GatewayCall("get_message", mid, <<>>)>>
                                \o (IF raisedAt = 0 THEN plan
                                    ELSE Append(SubSeq(plan, 1, raisedAt - 1),
                                                Raised(plan[raisedAt])))
              /\ errors' = ExecuteErrors(errors, mid, raisedAt > 0)
              /\ decisions' = IF raisedAt = 0 THEN Append(decisions, decision)
                              ELSE decisions
              /\ counts' = IF raisedAt = 0 THEN TallyCounts(counts, decision)
                           ELSE counts
              /\ examples' = IF raisedAt = 0 THEN TallyExamples(examples, decision)
                             ELSE examples
    /\ idx' = idx + 1
    /\ UNCHANGED <<storeVars, call, ret, config, gateway, pc, started, ids, dry_run,
                   report, prev>>

\* lines 53-75: get_message returns; decide, execute, tally.  raisedAt is
\* the gateway call of execute_decision that raises (0: none does).
Process ==
    /\ pc = "loop"
    /\ idx < Len(ids)
    /\ ~gateway.mailbox[ids[idx + 1]].raises
    /\ LET mid == ids[idx + 1]
           msg == [gateway.mailbox[mid].msg EXCEPT !.id = mid]
       IN  \E decision \in {Decide(msg, config)} :
           \E plan \in {execute_decision(decision, config, gateway.present, dry_run)} :
           \E raisedAt \in 0..Len(plan) :
              /\ calls' = calls \o <<GatewayCall("get_message", mid, <<>>)>>
                                \o (IF raisedAt = 0 THEN plan
                                    ELSE Append(SubSeq(plan, 1, raisedAt - 1),
                                                Raised(plan[raisedAt])))
              /\ errors' = ExecuteErrors(errors, mid, raisedAt > 0)
              /\ decisions' = Append(decisions, decision)
              /\ counts' = TallyCounts(counts, decision)
              /\ examples' = TallyExamples(examples, decision)
    /\ idx' = idx + 1
    /\ UNCHANGED <<storeVars, call, ret, config, gateway, pc, started, ids, dry_run,
                   report, prev>>

\* lines 77-85: stamp finished_at and return the report
Finish ==
    /\ pc = "loop"
    /\ idx = Len(ids)
    /\ \E finished \in Times :
          report' = RunReport(started, finished, counts, examples, errors, decisions)
    /\ pc' = "done"
    /\ UNCHANGED <<storeVars, call, ret, config, gateway, started, ids, idx, dry_run,
                   decisions, counts, examples, errors, calls, prev>>

Next ==
    \/ Start
    \/ ReturnNoGateway
    \/ ListMessages
    \/ FetchFails
    \/ Process
    \/ Finish

Spec == Init /\ [][Next]_vars


---------------------------------------------------------------------------
(* Claims about process_inbox, stated on the gateway, the call log and the *)
(* returned report.                                                        *)

\* the ids list_messages handed over: none when there is no gateway or it raised
Listed ==
    IF gateway.present /\ ~gateway.list_raises THEN gateway.listing ELSE <<>>

\* the listed ids for which get_message succeeds
Fetched == {mid \in Elems(Listed) : ~gateway.mailbox[mid].raises}

\* the positions of seq whose entry satisfies Test
Where(seq, Test(_)) == {i \in 1..Len(seq) : Test(seq[i])}

\* sum of the values of counts
ClaimSum(cnt) == cnt[KEEP] + cnt[ARCHIVE] + cnt[TRASH] + cnt[LABEL]

IsFetchError(e, mid) == Len(e) = 4 /\ e[1] = "get_message " /\ e[2] = mid /\ e[3] = " failed: "

IsActionError(e, mid) == Len(e) = 4 /\ e[1] = "action failed for " /\ e[2] = mid /\ e[3] = ": "

\* the mutating gateway calls that raised, as positions of the call log
RaisedMutations == {k \in 1..Len(calls) : calls[k].op \in Mutating /\ calls[k].raised}

\* C5: when process_inbox returns, the values of counts sum to the number of
\* listed ids for which get_message succeeded, which is also the number of
\* decisions, whatever fetches and executions failed.
C5_CountsSum ==
    report.returned =>
        /\ ClaimSum(report.counts) = Cardinality(Fetched)
        /\ Len(report.decisions) = Cardinality(Fetched)

\* a run that is not dry has returned after one fetch and one execution failed
C5_Witness ==
    /\ report.returned
    /\ ~DryRun(config)
    /\ RaisedMutations # {}
    /\ \E mid \in Elems(Listed) : gateway.mailbox[mid].raises
    /\ ClaimSum(report.counts) = 1

\* C6: when mode.dry_run is true or missing, a run calls no mutating gateway
\* operation; only list_messages and get_message are called.
C6_DryRunNoMutation ==
    DryRun(config) =>
        \A k \in 1..Len(calls) : calls[k].op \in {"list_messages", "get_message"}

\* a run whose configuration has no dry_run key has returned with an Archive
\* decision
C6_Witness ==
    /\ report.returned
    /\ config.mode.present = {}
    /\ \E k \in 1..Len(report.decisions) : report.decisions[k].action = ARCHIVE
    /\ Len(calls) = 1 + Len(Listed)

\* C7: if list_messages raises the run still returns a report: one error,
\* beginning with "list_messages failed:", empty counts, examples and
\* decisions, and neither get_message nor a mutating operation was called.
C7_ListFailure ==
    (report.returned /\ gateway.present /\ gateway.list_raises) =>
        /\ Len(report.errors) = 1
        /\ report.errors[1][1] = "list_messages failed: "
        /\ CountKeys(report.counts) = {}
        /\ ExampleKeys(report.examples) = {}
        /\ report.decisions = <<>>
        /\ \A k \in 1..Len(calls) : calls[k].op = "list_messages"

\* a run that is not dry has returned after list_messages raised having
\* yielded ids
C7_Witness ==
    /\ report.returned
    /\ gateway.present
    /\ gateway.list_raises
    /\ gateway.listing # <<>>
    /\ ~DryRun(config)
    /\ Len(calls) = 1

\* C8: a get_message failure never aborts the run: every listed id is fetched
\* once; an id whose fetch fails gets one error entry "get_message <id>
\* failed: ..." and no Decision, tally or mutation; every other id, the
\* later ones included, gets its Decision before the run returns.
C8_FetchFailure ==
    (report.returned /\ gateway.present /\ ~gateway.list_raises) =>
        /\ \A mid \in Elems(Listed) :
              LET ForMid(c) == c.op = "get_message" /\ c.id = mid
                  ErrMid(e) == IsFetchError(e, mid)
                  DecMid(d) == d.message.id = mid
                  MutMid(c) == c.op \in Mutating /\ c.id = mid
              IN  /\ Cardinality(Where(calls, ForMid)) = 1
                  /\ gateway.mailbox[mid].raises =>
                        /\ Cardinality(Where(report.errors, ErrMid)) = 1
                        /\ Where(report.decisions, DecMid) = {}
                        /\ Where(calls, MutMid) = {}
                  /\ ~gateway.mailbox[mid].raises =>
                        /\ Where(report.errors, ErrMid) = {}
                        /\ Cardinality(Where(report.decisions, DecMid)) = 1
        /\ ClaimSum(report.counts) = Len(report.decisions)

\* a run that is not dry has returned: the fetch of the first listed id
\* failed, the second was fetched, decided Archive and archived
C8_Witness ==
    /\ report.returned
    /\ ~DryRun(config)
    /\ Len(Listed) = 2
    /\ gateway.mailbox[Listed[1]].raises
    /\ Len(report.decisions) = 1
    /\ report.decisions[1].message.id = Listed[2]
    /\ \E k \in 1..Len(calls) :
          calls[k] = GatewayCall("archive_message", Listed[2], <<>>)

\* C9: in a run that is not dry, when executing a decision raises, one error
\* entry "action failed for <id>: ..." is recorded, the Decision is still
\* appended with its action unchanged and counted, and the run continues
\* with the next id.
C9_ExecutionFailure ==
    /\ \A k \in RaisedMutations :
          LET mid == calls[k].id
              ErrMid(e) == IsActionError(e, mid)
              DecMid(d) == d.message.id = mid
          IN  /\ ~DryRun(config)
              /\ Cardinality(Where(errors, ErrMid)) = 1
              /\ Cardinality(Where(decisions, DecMid)) = 1
              /\ \A i \in Where(decisions, DecMid) :
                    decisions[i] =
                        Decide([gateway.mailbox[mid].msg EXCEPT !.id = mid], config)
    /\ \A a \in Action :
          LET WithAction(d) == d.action = a
          IN  counts[a] = Cardinality(Where(decisions, WithAction))
    /\ report.returned =>
          \A mid \in Elems(Listed) :
              \E k \in 1..Len(calls) : calls[k].op = "get_message" /\ calls[k].id = mid

\* a run that is not dry has returned: archiving the first listed message
\* raised, and the second message was fetched and decided too
C9_Witness ==
    /\ report.returned
    /\ ~DryRun(config)
    /\ Len(Listed) = 2
    /\ \E k \in RaisedMutations : calls[k].id = Listed[1]
    /\ Len(report.decisions) = 2
    /\ report.counts[ARCHIVE] >= 1
    /\ Len(report.errors) = 1

\* C10: two dry runs with the same configuration against a gateway whose
\* list_messages and get_message answer the same way return the same
\* decisions, counts, examples and errors.
C10_DryRunIdempotent ==
    (prev.returned /\ report.returned /\ DryRun(config)) =>
        /\ report.decisions = prev.decisions
        /\ report.counts = prev.counts
        /\ report.examples = prev.examples
        /\ report.errors = prev.errors

\* the second dry run has returned, with a Decision and an error in its report
C10_Witness ==
    /\ prev.returned
    /\ report.returned
    /\ DryRun(config)
    /\ Len(report.decisions) >= 1
    /\ Len(report.errors) >= 1


---------------------------------------------------------------------------
(* storage.py: the audit store.  A datetime is the tuple <<year, month,    *)
(* day, hour, minute, second>>; isoformat() and fromisoformat() are        *)
(* computed digit by digit.  A table is the sequence of its rows in rowid  *)
(* order; _ensure_schema creates both tables empty.                        *)

\* the most rows the table `audit` holds
MaxRows == 3

Digits == <<"0", "1", "2", "3", "4", "5", "6", "7", "8", "9">>

Digit(n) == Digits[n + 1]

DigitValue(c) == CHOOSE d \in 0..9 : Digits[d + 1] = c

Pad2(n) == <<Digit(n \div 10), Digit(n % 10)>>

Pad4(n) == Pad2(n \div 100) \o Pad2(n % 100)

Value2(s, i) == DigitValue(s[i]) * 10 + DigitValue(s[i + 1])

\* datetime.isoformat() of a naive datetime with no microseconds
isoformat(ts) ==
    Pad4(ts[1]) \o <<"-">> \o Pad2(ts[2]) \o <<"-">> \o Pad2(ts[3]) \o <<"T">>
    \o Pad2(ts[4]) \o <<":">> \o Pad2(ts[5]) \o <<":">> \o Pad2(ts[6])

\* datetime.now(timezone.utc).isoformat(timespec="seconds")
utc_isoformat(ts) == isoformat(ts) \o <<"+", "0", "0", ":", "0", "0">>

\* datetime.fromisoformat() of such a text
fromisoformat(s) ==
    <<Value2(s, 1) * 100 + Value2(s, 3), Value2(s, 6), Value2(s, 9),
      Value2(s, 12), Value2(s, 15), Value2(s, 18)>>

\* the row of `meta` that holds the last run
LastRunRows(m) == {i \in 1..Len(m) : m[i].key = <<"last_run">>}

\* get_last_run: what it returns
get_last_run(m) ==
    IF LastRunRows(m) # {}
    THEN LET row == m[CHOOSE i \in LastRunRows(m) : \A j \in LastRunRows(m) : i <= j]
         IN  IF row.value # EmptyStr THEN fromisoformat(row.value) ELSE None
    ELSE None

\* set_last_run: the rows of `meta` after the INSERT ... ON CONFLICT(key) DO
\* UPDATE
set_last_run(m, ts) ==
    IF LastRunRows(m) # {}
    THEN [i \in 1..Len(m) |->
             IF i \in LastRunRows(m) THEN [m[i] EXCEPT !.value = isoformat(ts)]
             ELSE m[i]]
    ELSE Append(m, [key |-> <<"last_run">>, value |-> isoformat(ts)])

\* one row of `audit`: AUTOINCREMENT numbers it, the clock stamps it
AuditRow(id, now, d) ==
    [id |-> id, ts |-> utc_isoformat(now), message_id |-> d.message.id,
     action |-> d.action, by |-> d.by, reason |-> d.reason,
     subject |-> d.message.subject, sender |-> d.message.from_addr]

\* the INSERT as INSERT OR REPLACE with rowids counted from 1
append_audit_records_replace(aud, decs, clock) ==
    [k \in 1..Len(decs) |-> AuditRow(k, clock[k], decs[k])]
    \o SubSeq(aud, Len(decs) + 1, Len(aud))

\* append_audit_records: the rows of `audit` after the executemany; clock[k]
\* is the clock read for the k-th decision
append_audit_records(aud, decs, clock) ==
    aud \o [k \in 1..Len(decs) |-> AuditRow(Len(aud) + k, clock[k], decs[k])]

\* the instants the clock and the `ts` argument may show
StoreTimes == { <<2025, 1, 1, 12, 0, 0>>, <<2025, 1, 1, 12, 0, 1>> }

\* the decisions handed to append_audit_records: those of a run over the
\* messages labelled INBOX only, at most two at a time
StoreDecisions ==
    { Decide([m EXCEPT !.id = "1"], CHOOSE cfg \in EngineConfigs : TRUE) :
        m \in {e \in EngineMessages : e.labels = << <<"I","N","B","O","X">> >>} }

StoreBatches == UNION { [1..n -> StoreDecisions] : n \in 0..2 }

InitStore ==
    /\ call = [fn |-> "none"]
    /\ ret = [done |-> FALSE, value |-> None]
    /\ EngineIdle
    /\ StoreEmpty

CallGetLastRun ==
    /\ call' = [fn |-> "get_last_run"]
    /\ ret' = [done |-> TRUE, value |-> get_last_run(meta)]
    /\ UNCHANGED <<engineVars, storeVars>>

CallSetLastRun ==
    /\ call' = [fn |-> "set_last_run"]
    /\ \E ts \in StoreTimes : meta' = set_last_run(meta, ts)
    /\ ret' = [done |-> TRUE, value |-> None]
    /\ UNCHANGED <<engineVars, audit>>

CallAppendAuditRecords ==
    /\ call' = [fn |-> "append_audit_records"]
    /\ \E decs \in StoreBatches :
          /\ Len(audit) + Len(decs) <= MaxRows
          /\ \E clock \in [1..Len(decs) -> StoreTimes] :
                audit' = append_audit_records(audit, decs, clock)
    /\ ret' = [done |-> TRUE, value |-> None]
    /\ UNCHANGED <<engineVars, meta>>

NextStore ==
    \/ CallGetLastRun
    \/ CallSetLastRun
    \/ CallAppendAuditRecords

SpecStore == InitStore /\ [][NextStore]_vars

\* every row of old is a row of new, at the same place and unchanged
RowsKept(old, new) ==
    /\ Len(old) <= Len(new)
    /\ \A i \in 1..Len(old) : new[i] = old[i]

\* C11 as stated: no store operation changes or removes a row of either
\* table; the earlier rows are a prefix of the later ones.
C11_AsStated ==
    [][RowsKept(meta, meta') /\ RowsKept(audit, audit')]_vars

\* C11: no store operation changes or removes a row of the table audit, whose
\* earlier rows are a prefix of the later ones; get_last_run writes nothing;
\* set_last_run leaves audit alone and keeps the single row of meta,
\* 'last_run', in place, replacing only its value; append_audit_records
\* leaves meta alone.
C11_AppendOnly ==
    [][/\ RowsKept(audit, audit')
       /\ Len(meta') <= 1
       /\ Len(meta) <= Len(meta')
       /\ \A i \in 1..Len(meta) : meta'[i].key = meta[i].key
       /\ call'.fn = "get_last_run" => UNCHANGED storeVars
       /\ call'.fn = "set_last_run" => UNCHANGED audit
       /\ call'.fn = "append_audit_records" => UNCHANGED meta]_vars

\* the audit table is full, written by more than one append at different
\* instants, and the last run has been set
C11_Witness ==
    /\ Len(audit) = MaxRows
    /\ audit[1].ts # audit[MaxRows].ts
    /\ \A i \in 1..MaxRows : audit[i].id = i
    /\ meta # <<>>
    /\ get_last_run(meta) \in StoreTimes


---------------------------------------------------------------------------
(* execute_decision called on its own, on decisions of every action with   *)
(* and without labels to add; any of its gateway calls may raise.          *)

\* the calls a run of execute_decision issued: all of its plan, or the plan
\* up to the call that raised
Issued(plan, raisedAt) ==
    IF raisedAt = 0 THEN plan
    ELSE Append(SubSeq(plan, 1, raisedAt - 1), Raised(plan[raisedAt]))

\* labels_to_add: none, one label, two labels
ExecuteLabels ==
    { <<>>,
      << <<"R","e","v","i","e","w">> >>,
      << <<"R","e","v","i","e","w">>, <<"N","e","w","s">> >> }

ExecuteDecisions ==
    { Decision(MessageSummary(mid, None, <<"H","i">>, EmptyStr, <<>>, None),
               a, l, <<"test">>, by) :
        mid \in {"m1"}, a \in Action, l \in ExecuteLabels, by \in {"policy", "llm"} }

InitExecute ==
    /\ call \in [fn : {"execute_decision"}, decision : ExecuteDecisions,
                 cfg : {CHOOSE cfg \in EngineConfigs : TRUE},
                 gateway_present : BOOLEAN, dry_run : BOOLEAN]
    /\ ret = [done |-> FALSE, value |-> <<>>, raised |-> FALSE]
    /\ EngineIdle
    /\ StoreEmpty

CallExecuteDecision ==
    /\ call.fn = "execute_decision"
    /\ ~ret.done
    /\ \E plan \in {execute_decision(call.decision, call.cfg,
                                     call.gateway_present, call.dry_run)} :
       \E raisedAt \in 0..Len(plan) :
          ret' = [done |-> TRUE, value |-> Issued(plan, raisedAt),
                  raised |-> raisedAt > 0]
    /\ UNCHANGED <<call, engineVars, storeVars>>

NextExecute == CallExecuteDecision

SpecExecute == InitExecute /\ [][NextExecute]_vars

\* the decision's modify_labels call
ClaimModifyLabels ==
    GatewayCall("modify_labels", call.decision.message.id, call.decision.labels_to_add)

\* the decision's modify_labels call when it has labels to add, else no call
ClaimLabelIfAny ==
    IF call.decision.labels_to_add # <<>> THEN <<ClaimModifyLabels>> ELSE <<>>

ClaimArchive == GatewayCall("archive_message", call.decision.message.id, <<>>)

ClaimTrash == GatewayCall("trash_message", call.decision.message.id, <<>>)

ClaimLive == ~call.dry_run /\ call.gateway_present

\* C12 as stated: when no gateway call raises, execute_decision issues no call
\* with dry_run true or no gateway, and otherwise exactly: Keep, modify_labels
\* if there are labels to add; Archive, archive_message and then modify_labels
\* if there are labels to add; Trash, trash_message only; Label, modify_labels.
C12_AsStated ==
    (ret.done /\ ~ret.raised) =>
        ret.value =
            IF ~ClaimLive THEN <<>>
            ELSE CASE call.decision.action = KEEP    -> ClaimLabelIfAny
                   [] call.decision.action = ARCHIVE -> <<ClaimArchive>> \o ClaimLabelIfAny
                   [] call.decision.action = TRASH   -> <<ClaimTrash>>
                   [] call.decision.action = LABEL   -> <<ClaimModifyLabels>>

\* C12: as stated, except that Label issues modify_labels only if there are
\* labels to add and otherwise no call; and when a gateway call raises,
\* that call is the last one issued, the ones before it being those stated.
C12_ExactCalls ==
    ret.done =>
        LET stated ==
                IF ~ClaimLive THEN <<>>
                ELSE CASE call.decision.action = KEEP    -> ClaimLabelIfAny
                       [] call.decision.action = ARCHIVE -> <<ClaimArchive>> \o ClaimLabelIfAny
                       [] call.decision.action = TRASH   -> <<ClaimTrash>>
                       [] call.decision.action = LABEL   -> ClaimLabelIfAny
            n == Len(ret.value)
        IN  IF ret.raised
            THEN /\ n \in 1..Len(stated)
                 /\ SubSeq(ret.value, 1, n - 1) = SubSeq(stated, 1, n - 1)
                 /\ ret.value[n] = Raised(stated[n])
            ELSE ret.value = stated

\* an Archive decision with two labels to add was executed for real: archive
\* first, the labels second
C12_Witness ==
    /\ ret.done
    /\ ~ret.raised
    /\ ClaimLive
    /\ call.decision.action = ARCHIVE
    /\ Len(call.decision.labels_to_add) = 2
    /\ Len(ret.value) = 2
    /\ ret.value[1].op = "archive_message"
    /\ ret.value[2].op = "modify_labels"


---------------------------------------------------------------------------
(* More claims about process_inbox.                                        *)

\* the get_message calls of the call log, in call order
ClaimGets ==
    LET IsGet(c) == c.op = "get_message"
    IN  SelectSeq(calls, IsGet)

\* the ids a sequence of calls or messages is about
ClaimIds(seq) == [k \in 1..Len(seq) |-> seq[k].id]

\* C13: in a run, list_messages is the first gateway call and the only one of
\* its kind; get_message is called once per listed id, in listing order (all
\* of them by the time the run returns); a mutating call comes after the
\* successful get_message of its own id with no other get_message in
\* between; decisions holds one Decision per successfully fetched id, in
\* listing order.
C13_Sequential ==
    LET FetchedOk(mid) == ~gateway.mailbox[mid].raises
    IN  /\ \A k \in 1..Len(calls) : (calls[k].op = "list_messages") <=> (k = 1)
        /\ ClaimIds(ClaimGets) = SubSeq(Listed, 1, Len(ClaimGets))
        /\ report.returned => ClaimIds(ClaimGets) = Listed
        /\ \A k \in 1..Len(ClaimGets) :
              ClaimGets[k].raised <=> gateway.mailbox[ClaimGets[k].id].raises
        /\ \A k \in 1..Len(calls) :
              calls[k].op \in Mutating =>
                  \E j \in 1..(k - 1) :
                      /\ calls[j] = GatewayCall("get_message", calls[k].id, <<>>)
                      /\ \A i \in (j + 1)..(k - 1) : calls[i].op \in Mutating
        /\ [k \in 1..Len(decisions) |-> decisions[k].message.id]
              = SelectSeq(ClaimIds(ClaimGets), FetchedOk)

\* a run that is not dry has returned: it listed id 2 before id 1, fetched
\* and archived 2, then fetched and archived 1
C13_Witness ==
    /\ report.returned
    /\ ~DryRun(config)
    /\ Listed = <<"2", "1">>
    /\ Len(calls) = 5
    /\ ClaimIds(calls) = <<"", "2", "2", "1", "1">>
    /\ calls[3].op = "archive_message"
    /\ calls[5].op = "archive_message"
    /\ ClaimIds([k \in 1..2 |-> report.decisions[k].message]) = <<"2", "1">>


---------------------------------------------------------------------------
(* process_inbox over a listing long enough for one action to be decided   *)
(* more than five times: dry runs over messages the guard does not keep.   *)

\* the number of ids of the long listing
MaxTallyIds == 6

TallyListing == [k \in 1..MaxTallyIds |-> ToString(k)]

\* what get_message does for an id of the long listing: raise (for the first
\* id only), or return a message that is neither whitelisted nor protected (a
\* newsletter, a spam, a plain message)
TallyEntries ==
    { e \in MailboxEntries :
        \/ e.raises
        \/ /\ ~is_whitelisted(e.msg, EngineSafety.whitelist_senders,
                              EngineSafety.whitelist_domains)
           /\ ~is_protected(e.msg, EngineSafety.never_touch_labels) }

TallyGateways ==
    { [present |-> FALSE, list_raises |-> FALSE, listing |-> <<>>, mailbox |-> <<>>] }
    \cup { [present |-> TRUE, list_raises |-> FALSE, listing |-> TallyListing,
            mailbox |-> mb] :
              mb \in { f \in [Elems(TallyListing) -> TallyEntries] :
                         \A mid \in Elems(TallyListing) :
                             f[mid].raises => mid = TallyListing[1] } }

TallyConfigs == { c \in EngineConfigs : c.mode.present = {} }

InitTally == InitEngine(TallyConfigs, TallyGateways)

SpecTally == InitTally /\ [][Next]_vars

\* the subjects of the decisions of decs with action a, in order
ClaimSubjects(decs, a) ==
    LET WithAction(d) == d.action = a
        picked == SelectSeq(decs, WithAction)
    IN  [k \in 1..Len(picked) |-> picked[k].message.subject]

\* counts and examples tally decs: at most 5 examples per action, the
\* subjects of the first min(5, count) decisions with that action
ClaimTallied(cnt, ex, decs) ==
    \A a \in Action :
        LET subjects == ClaimSubjects(decs, a)
        IN  /\ cnt[a] = Len(subjects)
            /\ Len(ex[a]) <= 5
            /\ ex[a] = SubSeq(subjects, 1, IF cnt[a] < 5 THEN cnt[a] ELSE 5)

\* C14: at every point of a run and in the returned report, each examples
\* list holds at most 5 subjects: those of the first min(5, counts[a])
\* processed messages decided a, in processing order, while counts[a] is the
\* number of all of them.
C14_ExamplesBounded ==
    /\ ClaimTallied(counts, examples, decisions)
    /\ report.returned =>
          ClaimTallied(report.counts, report.examples, report.decisions)

\* a run has returned with six Archive decisions and five Archive examples;
\* the sixth archived message has another subject than the fifth
C14_Witness ==
    /\ report.returned
    /\ report.counts[ARCHIVE] = 6
    /\ Len(report.examples[ARCHIVE]) = 5
    /\ ClaimSubjects(report.decisions, ARCHIVE)[6] # report.examples[ARCHIVE][5]
    /\ ClaimSubjects(report.decisions, ARCHIVE)[2] # report.examples[ARCHIVE][1]


---------------------------------------------------------------------------
(* fast_heuristics called on its own.                                      *)

\* subjects: absent, three with a spam keyword in some case, two without
HeuristicSubjects ==
    Subjects \cup
    { <<"L","o","a","n"," ","A","p","p","r","o","v","e","d">>,
      <<"F","R","E","E","!","!","!"," ","s","t","u","f","f">>,
      <<"W","i","n","n","i","n","g">> }

\* body previews: those of the policy inputs and a List-Unsubscribe header
HeuristicBodyPreviews ==
    BodyPreviews \cup
    { <<"L","I","S","T","-","U","N","S","U","B","S","C","R","I","B","E",":",
        " ","<","x",">">> }

HeuristicMessages ==
    { MessageSummary("m1", None, s, sn, <<>>, b) :
        s \in HeuristicSubjects, sn \in Snippets \cup {None, EmptyStr},
        b \in HeuristicBodyPreviews }

InitHeuristics ==
    /\ call \in [fn : {"fast_heuristics"}, msg : HeuristicMessages]
    /\ ret = [done |-> FALSE, value |-> <<NoAction, <<>> >>]
    /\ EngineIdle
    /\ StoreEmpty

CallFastHeuristics ==
    /\ call.fn = "fast_heuristics"
    /\ ~ret.done
    /\ ret' = [done |-> TRUE, value |-> fast_heuristics(call.msg)]
    /\ UNCHANGED <<call, engineVars, storeVars>>

NextHeuristics == CallFastHeuristics

SpecHeuristics == InitHeuristics /\ [][NextHeuristics]_vars

\* the text the hint is looked for in: the body preview, or the snippet when
\* the body preview is absent or empty (nothing when that is absent too)
ClaimHintText ==
    IF call.msg.body_preview \notin {None, EmptyStr} THEN call.msg.body_preview
    ELSE IF call.msg.snippet # None THEN call.msg.snippet
    ELSE EmptyStr

ClaimHint ==
    Contains(<<"u","n","s","u","b","s","c","r","i","b","e">>, lower(ClaimHintText))

ClaimSpamSubject ==
    /\ call.msg.subject # None
    /\ \E k \in 1..Len(spammy) : Contains(spammy[k], lower(call.msg.subject))

\* C15: fast_heuristics returns (Archive, "unsubscribe hint") whenever the
\* lower-cased body preview (or snippet, when the body preview is absent or
\* empty) contains "unsubscribe", spam keyword in the subject or not;
\* (Trash, "spammy subject") when there is no such hint and the lower-cased
\* subject contains a spam keyword; (none, none) otherwise.
C15_UnsubscribeFirst ==
    ret.done =>
        ret.value = IF ClaimHint THEN <<ARCHIVE, <<"unsubscribe hint">> >>
                    ELSE IF ClaimSpamSubject THEN <<TRASH, <<"spammy subject">> >>
                    ELSE <<NoAction, <<>> >>

\* fast_heuristics has returned Archive for a message with a spam subject
\* whose hint is in the snippet, the body preview being empty
C15_Witness ==
    /\ ret.done
    /\ ClaimSpamSubject
    /\ call.msg.body_preview = EmptyStr
    /\ ClaimHint
    /\ ret.value = <<ARCHIVE, <<"unsubscribe hint">> >>


\* the message get_message returns for a listed id
ClaimMessage(mid) == [gateway.mailbox[mid].msg EXCEPT !.id = mid]

ClaimWhitelisted(msg) ==
    is_whitelisted(msg, Get(config.safety, "whitelist_senders", <<>>),
                   Get(config.safety, "whitelist_domains", <<>>))

ClaimProtected(msg) ==
    is_protected(msg, Get(config.safety, "never_touch_labels", <<>>))

\* policy_decide defers on msg: not whitelisted, not protected, no heuristic
\* verdict
ClaimDefers(msg) ==
    /\ ~ClaimWhitelisted(msg)
    /\ ~ClaimProtected(msg)
    /\ fast_heuristics(msg)[1] = NoAction

\* the messages of the mailbox that the runs' safety section whitelists or
\* protects
ClaimGuarded ==
    { m \in EngineMessages :
        \/ is_whitelisted(m, EngineSafety.whitelist_senders,
                          EngineSafety.whitelist_domains)
        \/ is_protected(m, EngineSafety.never_touch_labels) }

\* the messages of the mailbox on which policy_decide defers under the runs'
\* safety section
ClaimDeferring ==
    { m \in EngineMessages \ ClaimGuarded : fast_heuristics(m)[1] = NoAction }

\* the ids whose get_message call has returned a message in this run
ClaimFetchedSoFar ==
    {calls[k].id : k \in {i \in 1..Len(calls) :
                             calls[i].op = "get_message" /\ ~calls[i].raised}}

\* C16: for every fetched message on which policy_decide defers, the run
\* records exactly the Decision (Keep, "fallback", by "policy", no labels to
\* add) and, dry run or not, makes no mutating gateway call for it.
C16_Fallback ==
    \A mid \in ClaimFetchedSoFar :
        (config.safety = EngineSafety /\ gateway.mailbox[mid].msg \in ClaimDeferring) =>
            LET DecMid(d) == d.message.id = mid
                MutMid(c) == c.op \in Mutating /\ c.id = mid
            IN  /\ Cardinality(Where(decisions, DecMid)) = 1
                /\ \A i \in Where(decisions, DecMid) :
                      decisions[i] = [message |-> ClaimMessage(mid), action |-> KEEP,
                                      labels_to_add |-> <<>>,
                                      reason |-> <<"fallback">>, by |-> "policy"]
                /\ Where(calls, MutMid) = {}
                /\ report.returned =>
                      \E i \in 1..Len(report.decisions) :
                          /\ report.decisions[i].message.id = mid
                          /\ report.decisions[i].reason = <<"fallback">>

\* a run that is not dry has returned: one message was archived, the other
\* fell back to Keep and was left alone
C16_Witness ==
    /\ report.returned
    /\ ~DryRun(config)
    /\ Len(report.decisions) = 2
    /\ \E i \in 1..2 : /\ report.decisions[i].reason = <<"fallback">>
                       /\ ClaimDefers(report.decisions[i].message)
    /\ \E k \in 1..Len(calls) : calls[k].op = "archive_message" /\ ~calls[k].raised
    /\ Len(calls) = 4


\* C17: every RunReport process_inbox returns has finished_at >= started_at,
\* whatever `now` the caller passed, with and without a gateway.
C17_FinishedAfterStarted ==
    report.returned => report.finished_at >= report.started_at


\* C18: in any run, dry or not, every Decision has action Keep or Archive and
\* origin "policy" (in the run and in its report), trash_message and
\* modify_labels are never called, and a message is the target of at most
\* one mutating call, an archive_message.
C18_ArchiveOnly ==
    /\ \A i \in 1..Len(decisions) :
          /\ decisions[i].action \notin {TRASH, LABEL}
          /\ decisions[i].by = "policy"
    /\ report.returned =>
          \A i \in 1..Len(report.decisions) :
              /\ report.decisions[i].action \notin {TRASH, LABEL}
              /\ report.decisions[i].by = "policy"
    /\ \A k \in 1..Len(calls) : calls[k].op \notin {"trash_message", "modify_labels"}
    /\ \A mid \in Elems(Listed) :
          LET MutMid(c) == c.op \in Mutating /\ c.id = mid
          IN  /\ Cardinality(Where(calls, MutMid)) <= 1
              /\ \A k \in Where(calls, MutMid) : calls[k].op = "archive_message"

\* a run that is not dry has returned: both messages had a spam subject and
\* neither was kept by the guard; each was archived, none trashed
C18_Witness ==
    /\ report.returned
    /\ ~DryRun(config)
    /\ Len(report.decisions) = 2
    /\ \A i \in 1..2 :
          /\ fast_heuristics(report.decisions[i].message)[1] = TRASH
          /\ report.decisions[i].action = ARCHIVE
    /\ Len(calls) = 5
    /\ \A k \in {3, 5} : calls[k].op = "archive_message" /\ ~calls[k].raised


\* C19: in a run, a fetched message that is whitelisted (by sender or domain)
\* or carries a protected label is the target of one gateway call only, its
\* get_message, and of no mutating call, whatever its subject and body hold.
C19_GuardedUntouched ==
    \A mid \in ClaimFetchedSoFar :
        (config.safety = EngineSafety /\ gateway.mailbox[mid].msg \in ClaimGuarded) =>
            LET ForMid(c) == c.id = mid
            IN  /\ Cardinality(Where(calls, ForMid)) = 1
                /\ \A k \in Where(calls, ForMid) : calls[k].op = "get_message"

\* a run that is not dry has returned: the first message, whitelisted by
\* domain, with a spam subject and an unsubscribe hint, was only fetched; the
\* second, starred and with a spam subject, too
C19_Witness ==
    /\ report.returned
    /\ ~DryRun(config)
    /\ Len(Listed) = 2
    /\ Len(calls) = 3
    /\ ClaimWhitelisted(ClaimMessage(Listed[1]))
    /\ fast_heuristics(ClaimMessage(Listed[1]))[1] = ARCHIVE
    /\ ClaimProtected(ClaimMessage(Listed[2]))
    /\ fast_heuristics(ClaimMessage(Listed[2]))[1] = TRASH
    /\ \A i \in 1..2 : report.decisions[i].action = KEEP

=============================================================================
